---- MODULE Spec2Model ----
(***************************************************************************)
(* Model of src/IGEN430/rpi_image_collect.py: the image harvester          *)
(* download_images_from_linked_pages and its helper                        *)
(* _safe_filename_from_url; and of cleanup_batch and its entry point in    *)
(* src/mesh_cleanup.py.                                                    *)
(*                                                                         *)
(* Strings that the code inspects (URL paths, content types, file names)   *)
(* are sequences of one-character strings, so that prefix, suffix, case    *)
(* folding, character replacement and concatenation are computed.          *)
(***************************************************************************)
EXTENDS Integers, Sequences, FiniteSets, TLC

\* ------------------------------------------------------------------ bounds
\* Largest number of elements (<img> and <a href> together) of the root page.
MaxElems == 3
\* Largest configured max_links (besides None).
MaxBudget == 1
\* Wall-clock ticks the model lets pass (two ticks make one second).
MaxTick == 3
\* Largest number of elements of the root page when the program is run twice.
MaxElemsRerun == 1
\* Longest URL path handed to _safe_filename_from_url on its own.
MaxPathLen == 4
\* Largest number of entries of the folder handed to cleanup_batch.
MaxFolder == 3

\* Optional values: None is the empty tuple, a present value x is <<x>>.
None == <<>>
Some(x) == <<x>>

\* ----------------------------------------------------------- text helpers
\* str.lower() on one character (the letters the model's URLs use).
LowerChar(c) ==
    CASE c = "J" -> "j" [] c = "P" -> "p" [] c = "G" -> "g" [] c = "N" -> "n"
      [] c = "E" -> "e" [] c = "I" -> "i" [] c = "F" -> "f"
      [] OTHER -> c

Lower(s) == [k \in 1..Len(s) |-> LowerChar(s[k])]

\* str.startswith
StartsWith(s, p) == Len(s) >= Len(p) /\ SubSeq(s, 1, Len(p)) = p

\* Decimal rendering of a natural number, as an f-string renders it.
DigitChar(d) == <<"0", "1", "2", "3", "4", "5", "6", "7", "8", "9">>[d + 1]

RECURSIVE DecStr(_)
DecStr(n) == IF n < 10 THEN <<DigitChar(n)>> ELSE DecStr(n \div 10) \o <<DigitChar(n % 10)>>

\* The printable ASCII characters in code order, from the space (32) to the
\* tilde (126); the place of the backquote (96) is left blank.
Ascii ==
    <<
       " ", "!", "\"", "#", "$", "%", "&", "'", "(", ")", "*", "+",
       ",", "-", ".", "/", "0", "1", "2", "3", "4", "5", "6", "7",
       "8", "9", ":", ";", "<", "=", ">", "?", "@", "A", "B", "C",
       "D", "E", "F", "G", "H", "I", "J", "K", "L", "M", "N", "O",
       "P", "Q", "R", "S", "T", "U", "V", "W", "X", "Y", "Z", "[",
       "\\", "]", "^", "_", "", "a", "b", "c", "d", "e", "f", "g",
       "h", "i", "j", "k", "l", "m", "n", "o", "p", "q", "r", "s",
       "t", "u", "v", "w", "x", "y", "z", "{", "|", "}", "~" >>

\* The code of each character of the table.
AsciiCode ==
    [c \in {Ascii[k] : k \in 1..Len(Ascii)} |-> 31 + (CHOOSE k \in 1..Len(Ascii) : Ascii[k] = c)]

\* ord(c)
Ord(c) == AsciiCode[c]

\* str.upper() on one character.
UpperChar(c) == IF Ord(c) \in 97..122 THEN Ascii[Ord(c) - 32 - 31] ELSE c

Upper(s) == [k \in 1..Len(s) |-> UpperChar(s[k])]

\* str.endswith
EndsWith(s, p) == Len(s) >= Len(p) /\ SubSeq(s, Len(s) - Len(p) + 1, Len(s)) = p

\* s < t for two strings: by the code of the first character that differs, a
\* proper prefix before the longer string.
StrLess(s, t) ==
    \E k \in 1..(Len(s) + 1) :
        /\ k <= Len(t)
        /\ SubSeq(s, 1, k - 1) = SubSeq(t, 1, k - 1)
        /\ (k = Len(s) + 1 \/ Ord(s[k]) < Ord(t[k]))

\* Hexadecimal digits, as hexdigest renders them.
HexDigit(d) ==
    <<"0", "1", "2", "3", "4", "5", "6", "7", "8", "9", "a", "b", "c", "d", "e", "f">>[d + 1]

\* Positions of character c in s.
Positions(s, c) == {k \in 1..Len(s) : s[k] = c}

SetMax(S) == CHOOSE m \in S : \A x \in S : x <= m

\* ------------------------------------------------------------ path helpers
\* The components of a path between slashes, left to right.
RECURSIVE SplitSlash(_)
SplitSlash(p) ==
    IF Positions(p, "/") = {} THEN <<p>>
    ELSE LET k == CHOOSE m \in Positions(p, "/") : \A x \in Positions(p, "/") : m <= x
         IN <<SubSeq(p, 1, k - 1)>> \o SplitSlash(SubSeq(p, k + 1, Len(p)))

\* pathlib drops empty components and "." components.
PathParts(p) == SelectSeq(SplitSlash(p), LAMBDA part : part # <<>> /\ part # <<".">>)

\* Path(p).name: the final component, "" for an empty or root path.
PathName(p) == IF PathParts(p) = <<>> THEN <<>> ELSE PathParts(p)[Len(PathParts(p))]

\* Path(p).suffix: from the last dot of the name, unless the name starts or
\* ends with that dot.
PathSuffix(p) ==
    LET name == PathName(p)
        dots == Positions(name, ".")
    IN IF dots = {} THEN <<>>
       ELSE LET k == SetMax(dots)
            IN IF k > 1 /\ k < Len(name) THEN SubSeq(name, k, Len(name)) ELSE <<>>

\* Path(...).suffix.lower() in ('.jpg', '.jpeg', '.png', '.gif')
ImageSuffixes ==
    { <<".", "j", "p", "g">>, <<".", "j", "p", "e", "g">>,
      <<".", "p", "n", "g">>, <<".", "g", "i", "f">> }

\* ---------------------------------------------------------------- URLs
\* An absolute URL as urlparse splits it: network location, path, query.
\* The href/src attributes of the modelled pages are absolute URLs, for
\* which urljoin(base, href) is href itself.
Url(netloc, path, query) == [netloc |-> netloc, path |-> path, query |-> query]

\* The URL as one string (scheme://netloc path ?query), the text sha1 hashes.
UrlString(u) ==
    <<"h", "t", "t", "p", ":", "/", "/">> \o u.netloc \o u.path
        \o (IF u.query = <<>> THEN <<>> ELSE <<"?">> \o u.query)

RootHost == <<"h">>
OtherHost == <<"o">>

RootUrl == Url(RootHost, <<"/">>, <<>>)
\* Images.
ImgA == Url(RootHost, <<"/", "i", "/", "x", ".", "p", "n", "g">>, <<>>)
ImgB == Url(RootHost, <<"/", "x", ".", "p", "n", "g">>, <<"v", "=", "1">>)
ImgNoName == Url(RootHost, <<"/">>, <<"i", "d", "=", "7">>)
\* Links.
LinkHtml == Url(RootHost, <<"/", "g", "/">>, <<>>)
LinkBySuffix == Url(RootHost, <<"/", "x", ".", "P", "N", "G">>, <<>>)
LinkOff == Url(OtherHost, <<"/", "d", "/", "x", ".", "p", "n", "g", "/", "r", "a", "w">>, <<>>)

\* hashlib.sha1(url.encode('utf-8')).hexdigest(): an idealised digest, a
\* string of hex digits that differs for different URL strings (the bytes of
\* the string in hexadecimal).
Sha1Hex(s) ==
    [k \in 1..(2 * Len(s)) |->
        IF k % 2 = 1 THEN HexDigit(Ord(s[(k + 1) \div 2]) \div 16)
        ELSE HexDigit(Ord(s[k \div 2]) % 16)]

\* re.sub(r"[\\/:*?\"<>|]", "_", name)
UnsafeChars == {"\\", "/", ":", "*", "?", "\"", "<", ">", "|"}

\* ReplaceUnsafe with the substitution left out.
ReplaceUnsafeNothing(name) == name

\* re.sub(pattern, "_", name)
ReplaceUnsafe(name) ==
    [k \in 1..Len(name) |-> IF name[k] \in UnsafeChars THEN "_" ELSE name[k]]

\* _safe_filename_from_url
SafeFilenameFromUrl(u) ==
    LET name == PathName(u.path)
    IN IF name = <<>>
       THEN <<"i", "m", "a", "g", "e", "_">> \o Sha1Hex(UrlString(u)) \o <<".", "j", "p", "g">>
       ELSE ReplaceUnsafe(name)

\* ------------------------------------------------------------- the web
CtPng == <<"i", "m", "a", "g", "e", "/", "p", "n", "g">>
CtHtml == <<"t", "e", "x", "t", "/", "h", "t", "m", "l">>

\* An <img> element: its src and data-src attributes (None when absent).
Tag(src, data_src) == [src |-> src, data_src |-> data_src]

TagSrc == Tag(Some(ImgA), None)
TagLazy == Tag(None, Some(ImgB))
TagBare == Tag(None, None)
TagNoName == Tag(Some(ImgNoName), Some(ImgB))

\* What the server answers for a link URL once the GET succeeds: the
\* Content-Type header ("" when the server omits it) and, for an HTML page,
\* the <img> elements its body holds in document order.
Served(u) ==
    CASE u = LinkHtml -> [content_type |-> CtHtml, imgs |-> <<TagLazy, TagBare, TagNoName>>]
      [] u = LinkBySuffix -> [content_type |-> <<>>, imgs |-> <<>>]
      [] OTHER -> [content_type |-> CtPng, imgs |-> <<>>]

\* img_tag.get('src') or img_tag.get('data-src'): None when both are absent.
ImgSrc(tag) == IF tag.src # None THEN tag.src ELSE tag.data_src

\* ------------------------------------------------------ decisions of the run
\* datetime.now().strftime('images_%Y%m%d_%H%M%S'): the clock cut to whole
\* seconds, rendered in digits.
TicksPerSecond == 2

DatedName(t) == <<"i", "m", "a", "g", "e", "s", "_">> \o DecStr(t \div TicksPerSecond)

\* output_folder
BaseOutput == << <<"o", "u", "t">> >>

\* output_path: base_output / dated_name when dated_subfolder, else base_output
OutputPath(dated, t) == IF dated THEN BaseOutput \o <<DatedName(t)>> ELSE BaseOutput

\* Mkdir creating the parents only, not the directory itself.
MkdirParentsOnly(ds, path) == ds \cup {SubSeq(path, 1, k) : k \in 1..(Len(path) - 1)}

\* mkdir(parents=True, exist_ok=True): the directory and its parents exist.
Mkdir(ds, path) == ds \cup {SubSeq(path, 1, k) : k \in 1..Len(path)}

\* OriginSkipped with the filter left out.
OriginSkippedNever(same_dom, u) == FALSE

\* same_domain and link_netloc != base_netloc
OriginSkipped(same_dom, u) == same_dom /\ u.netloc # RootUrl.netloc

\* IsDirectImage without the suffix safety net.
IsDirectImageByTypeOnly(content_type, u) ==
    StartsWith(content_type, <<"i", "m", "a", "g", "e", "/">>)

\* content_type.startswith('image/') or suffix.lower() in (...)
IsDirectImage(content_type, u) ==
    \/ StartsWith(content_type, <<"i", "m", "a", "g", "e", "/">>)
    \/ Lower(PathSuffix(u.path)) \in ImageSuffixes

\* BudgetExceeded taking a maximum of 0 as a limit of no links.
BudgetExceededZeroIsLimit(max, count) == max # None /\ count > max[1]

\* BudgetExceeded testing the count before the link is counted in.
BudgetExceededAtLimit(max, count) == max # None /\ max[1] # 0 /\ count >= max[1]

\* max_links and link_count > max_links
BudgetExceeded(max, count) == max # None /\ max[1] # 0 /\ count > max[1]

\* AfterFailedLink asking for the same link again.
AfterFailedLinkRetry(p) == p

\* Lines 86-88: the except branch of the link fetch prints and continues with
\* the next <a> element.
AfterFailedLink(p) == p + 1

\* RootFilename with a 0-based index.
RootFilenameZeroBased(n, name) ==
    <<"r", "o", "o", "t", "_">> \o DecStr(n - 1) \o <<"_">> \o name

\* f"root_{i}_{name}"
RootFilename(n, name) == <<"r", "o", "o", "t", "_">> \o DecStr(n) \o <<"_">> \o name

\* DirectFilename numbered with the count before this link.
DirectFilenameUncounted(count, name) ==
    <<"l", "i", "n", "k", "_">> \o DecStr(count)
        \o <<"_", "d", "i", "r", "e", "c", "t", "_">> \o name

\* f"link_{link_count+1}_direct_{name}"
DirectFilename(count, name) ==
    <<"l", "i", "n", "k", "_">> \o DecStr(count + 1)
        \o <<"_", "d", "i", "r", "e", "c", "t", "_">> \o name

\* PageFilename without the link index.
PageFilenameNoLinkIndex(count, n, name) == DecStr(n) \o <<"_">> \o name

\* f"{link_count}_{idx}_{name}"
PageFilename(count, n, name) == DecStr(count) \o <<"_">> \o DecStr(n) \o <<"_">> \o name

\* How one image download ends: session.get or raise_for_status raises
\* ("get_error"); open() raises OSError ("open_oserror"); iter_content raises
\* a RequestException part-way ("stream_error"); f.write raises OSError
\* part-way ("write_oserror"); or every chunk is written ("saved").
GetOutcomes == {"ok", "get_error"}
SaveOutcomes == {"saved", "open_oserror", "stream_error", "write_oserror"}
ImageOutcomes == {"get_error"} \cup SaveOutcomes

\* The exception an outcome raises, None when it raises nothing.
ExcOf(o) ==
    CASE o \in {"get_error", "stream_error", "text_error"} -> Some("RequestException")
      [] o \in {"open_oserror", "write_oserror", "mkdir_oserror"} -> Some("OSError")
      [] OTHER -> None

\* except requests.RequestException as e
Caught(exc) == exc = Some("RequestException")

\* Does the outcome of a step inside one of the try blocks leave the function?
Propagates(o) == ExcOf(o) # None /\ ~Caught(ExcOf(o))

\* open(filepath, 'wb') creates or truncates the file; the chunks written
\* before a failure stay in it.
FilesAfter(fs, dir, name, o, r) ==
    IF o \in {"get_error", "open_oserror"} THEN fs
    ELSE {f \in fs : ~(f.dir = dir /\ f.name = name)}
            \cup {[dir |-> dir, name |-> name, complete |-> (o = "saved"), run |-> r]}

\* ------------------------------------------------------------------ state
VARIABLES
    pc,            \* where the run is
    run,           \* which run of the program this is (1, 2, ...)
    now,           \* the wall clock, in ticks
    req,           \* the arguments: same_domain, max_links, dated_subfolder
    served_root,   \* the root page the server holds: its <img> and <a href> elements
    output_path,   \* the run's output directory
    run_paths,     \* the output directories of the runs so far
    dirs,          \* directories of the file system
    files,         \* files of the file system
    root_imgs,     \* soup.find_all('img')
    a_tags,        \* soup.find_all('a', href=True)
    i,             \* root images iterated so far
    pos,           \* links iterated so far
    link_count,
    img_tags,      \* link_soup.find_all('img')
    idx,           \* linked-page images iterated so far
    gets,          \* the session.get calls, in order
    writes,        \* the open(filepath, 'wb') calls, in order
    scanned,       \* the BeautifulSoup(link_resp.text) calls, in order
    notices,       \* the error lines printed, in order
    error,         \* the exception that left the function, None if none
    out,           \* the function's return value
    exit_status,   \* the process's exit status once it ended
    fn_url,        \* _safe_filename_from_url called on its own: its argument
    fn_name,       \* ... and what it returned, None before the call
    batch_pc,      \* where the batch run of mesh_cleanup.py is
    folder,        \* cleanup_batch: the input folder, whether it exists and its entries
    mesh_files,    \* ... the mesh files found, sorted
    done,          \* ... mesh files iterated so far
    successful,    \* ... None until assigned
    failed,        \* ... None until assigned
    output_paths,
    attempts,      \* the cleanup_mesh calls, in order
    batch_error,   \* the exception that left cleanup_batch, None if none
    batch_status   \* the exit status of the batch run once it ended

loopVars == <<root_imgs, a_tags, i, pos, link_count, img_tags, idx>>
histVars == <<gets, writes, scanned, notices>>
endVars == <<error, out, exit_status>>
nameVars == <<fn_url, fn_name>>
batchVars == <<batch_pc, folder, mesh_files, done, successful, failed, output_paths,
               attempts, batch_error, batch_status>>
\* What no step of a harvester run changes: its arguments, the served pages,
\* the record of earlier runs, and the state of the other entry points.
otherVars == <<nameVars, batchVars>>
envVars == <<run, now, req, served_root, run_paths, otherVars>>
harvesterVars == <<pc, run, now, req, served_root, run_paths, output_path, dirs, files,
                   loopVars, histVars, endVars>>
vars == <<pc, envVars, output_path, dirs, files, loopVars, histVars, endVars>>

\* ---------------------------------------------------------------- inputs
SeqsUpTo(S, n) == UNION {[1..k -> S] : k \in 0..n}

RootTags == {TagSrc, TagBare}
LinkUrls == {LinkHtml, LinkBySuffix, LinkOff}

\* The root pages of at most m elements.
RootDocs(m) ==
    UNION { [imgs : [1..n -> RootTags], links : SeqsUpTo(LinkUrls, m - n)] : n \in 0..m }

MaxLinksArgs == {None} \cup {Some(k) : k \in 0..MaxBudget}

\* The arguments of __main__ (same_domain=True, max_links=None,
\* dated_subfolder=True), with max_links or same_domain varied.
Requests ==
    [same_domain : {TRUE}, max_links : MaxLinksArgs, dated_subfolder : {TRUE}]
        \cup [same_domain : {FALSE}, max_links : {None}, dated_subfolder : {TRUE}]

\* The local state of a run before it starts.
FreshRun ==
    /\ pc = "start"
    /\ output_path = <<>>
    /\ root_imgs = <<>> /\ a_tags = <<>> /\ i = 0 /\ pos = 0 /\ link_count = 0
    /\ img_tags = <<>> /\ idx = 0
    /\ gets = <<>> /\ writes = <<>> /\ scanned = <<>> /\ notices = <<>>
    /\ error = None /\ out = None /\ exit_status = None

\* The other entry points are not running.
NameIdle == fn_url = None /\ fn_name = None

BatchIdle ==
    /\ batch_pc = "idle"
    /\ folder = [exists |-> FALSE, names |-> {}]
    /\ mesh_files = <<>> /\ done = 0
    /\ successful = None /\ failed = None /\ output_paths = <<>>
    /\ attempts = <<>> /\ batch_error = None /\ batch_status = None

Init ==
    /\ FreshRun
    /\ run = 1 /\ now = 0 /\ run_paths = <<>>
    /\ req \in Requests
    /\ served_root \in RootDocs(MaxElems)
    /\ dirs = {} /\ files = {}
    /\ NameIdle /\ BatchIdle

\* ---------------------------------------------------------------- actions
Get(scope, at, u, ok) == [scope |-> scope, at |-> at, url |-> u, ok |-> ok]
Write(scope, at, name, o) == [scope |-> scope, at |-> at, name |-> name, outcome |-> o]
Notice(scope, at) == [scope |-> scope, at |-> at]

\* An exception leaves download_images_from_linked_pages.
Raise(exc) ==
    /\ pc' = "raised"
    /\ error' = exc
    /\ UNCHANGED <<out, exit_status>>

\* Lines 29-36: the output directory is computed and created.
MakeOutputDir ==
    /\ pc = "start"
    /\ output_path' = OutputPath(req.dated_subfolder, now)
    /\ \E o \in {"ok", "mkdir_oserror"} :
          IF o = "ok"
          THEN /\ dirs' = Mkdir(dirs, OutputPath(req.dated_subfolder, now))
               /\ run_paths' = Append(run_paths, OutputPath(req.dated_subfolder, now))
               /\ pc' = "fetch_root"
               /\ UNCHANGED endVars
          ELSE /\ Raise(ExcOf(o))
               /\ UNCHANGED <<dirs, run_paths>>
    /\ UNCHANGED <<run, now, req, served_root, otherVars, files, loopVars, histVars>>

\* RootFetched with the except branch's return left out.
RootFetchedAlways(o) == TRUE

\* Lines 38-43: the function goes on past the root fetch only when neither
\* session.get nor raise_for_status raised; the except branch returns.
RootFetched(o) == o = "ok"

\* Lines 38-49 and 71-74: the root page is fetched and parsed; a failure
\* prints and returns None.
FetchRoot ==
    /\ pc = "fetch_root"
    /\ \E o \in GetOutcomes :
          /\ gets' = Append(gets, Get("root", <<>>, RootUrl, o = "ok"))
          /\ IF RootFetched(o)
             THEN /\ root_imgs' = served_root.imgs
                  /\ a_tags' = served_root.links
                  /\ pc' = "root_imgs"
                  /\ UNCHANGED <<notices, out>>
             ELSE /\ notices' = Append(notices, Notice("root", <<>>))
                  /\ pc' = "returned"
                  /\ out' = None
                  /\ UNCHANGED <<root_imgs, a_tags>>
    /\ UNCHANGED <<envVars, output_path, dirs, files, i, pos, link_count, img_tags, idx,
                   writes, scanned, error, exit_status>>

\* The try block shared by the three download loops (lines 56-68, 93-104,
\* 124-136), for the image at `at` saved under `name`: the logs and the file
\* system after outcome o.
SaveEffects(scope, at, name, o) ==
    /\ writes' = IF o = "get_error" THEN writes
                 ELSE Append(writes, Write(scope, at, name, o))
    /\ files' = FilesAfter(files, output_path, name, o, run)
    /\ notices' = IF ExcOf(o) # None /\ Caught(ExcOf(o))
                  THEN Append(notices, Notice(scope, at)) ELSE notices

\* Lines 51-68: one iteration of the root-image loop.
RootImage ==
    /\ pc = "root_imgs"
    /\ i < Len(root_imgs)
    /\ i' = i + 1
    /\ LET img_src == ImgSrc(root_imgs[i + 1]) IN
       IF img_src = None
       THEN UNCHANGED <<pc, files, histVars, endVars>>
       ELSE \E o \in ImageOutcomes :
               /\ gets' = Append(gets, Get("rootimg", <<i + 1>>, img_src[1], o # "get_error"))
               /\ SaveEffects("rootimg", <<i + 1>>,
                              RootFilename(i + 1, SafeFilenameFromUrl(img_src[1])), o)
               /\ IF Propagates(o) THEN Raise(ExcOf(o)) ELSE UNCHANGED <<pc, endVars>>
               /\ UNCHANGED scanned
    /\ UNCHANGED <<envVars, output_path, dirs, root_imgs, a_tags, pos, link_count,
                   img_tags, idx>>

\* Lines 70-74: the root-image loop is over; the link loop starts.
EnumerateLinks ==
    /\ pc = "root_imgs"
    /\ i = Len(root_imgs)
    /\ pc' = "links"
    /\ link_count' = 0
    /\ UNCHANGED <<envVars, output_path, dirs, files, root_imgs, a_tags, i, pos,
                   img_tags, idx, histVars, endVars>>

\* Line 138: return output_path.
Return ==
    /\ pc' = "returned"
    /\ out' = Some(output_path)
    /\ UNCHANGED <<error, exit_status>>

\* Lines 106-109: a direct image link was handled; count it and check the budget.
AfterDirect(max_links) ==
    /\ link_count' = link_count + 1
    /\ IF BudgetExceeded(max_links, link_count + 1)
       THEN Return /\ UNCHANGED pos
       ELSE pos' = pos + 1 /\ UNCHANGED <<pc, endVars>>

\* Lines 75-117: one iteration of the link loop, up to the scan of a page,
\* for the value max_links of the argument of that name.
LinkStep(max_links) ==
    /\ pc = "links"
    /\ pos < Len(a_tags)
    /\ LET link_url == a_tags[pos + 1] IN
       IF OriginSkipped(req.same_domain, link_url)
       THEN /\ pos' = pos + 1
            /\ UNCHANGED <<pc, files, link_count, img_tags, idx, histVars, endVars>>
       ELSE \E g \in GetOutcomes :
          /\ gets' = Append(gets, Get("link", <<pos + 1>>, link_url, g = "ok"))
          /\ IF g # "ok"
             THEN /\ notices' = Append(notices, Notice("link", <<pos + 1>>))
                  /\ pos' = AfterFailedLink(pos)
                  /\ UNCHANGED <<pc, files, link_count, img_tags, idx, writes, scanned,
                                 endVars>>
             ELSE IF IsDirectImage(Served(link_url).content_type, link_url)
             THEN \E o \in SaveOutcomes :
                     /\ SaveEffects("direct", <<pos + 1>>,
                                    DirectFilename(link_count, SafeFilenameFromUrl(link_url)), o)
                     /\ IF Propagates(o)
                        THEN Raise(ExcOf(o)) /\ UNCHANGED <<pos, link_count>>
                        ELSE AfterDirect(max_links)
                     /\ UNCHANGED <<img_tags, idx, scanned>>
             ELSE /\ link_count' = link_count + 1
                  /\ IF BudgetExceeded(max_links, link_count + 1)
                     THEN /\ Return
                          /\ UNCHANGED <<img_tags, idx, scanned>>
                     ELSE \E t \in {"ok", "text_error"} :
                             IF t = "ok"
                             THEN /\ scanned' = Append(scanned,
                                          [at |-> <<pos + 1>>, link |-> link_count + 1])
                                  /\ img_tags' = Served(link_url).imgs
                                  /\ idx' = 0
                                  /\ pc' = "page_imgs"
                                  /\ UNCHANGED endVars
                             ELSE /\ Raise(ExcOf(t))
                                  /\ UNCHANGED <<img_tags, idx, scanned>>
                  /\ UNCHANGED <<pos, files, writes, notices>>
    /\ UNCHANGED <<envVars, output_path, dirs, root_imgs, a_tags, i>>

\* The link loop of the run, with the max_links it was called with.
Link == LinkStep(req.max_links)

\* Lines 119-136: one iteration of the image loop of a linked page.
PageImage ==
    /\ pc = "page_imgs"
    /\ idx < Len(img_tags)
    /\ idx' = idx + 1
    /\ LET img_src == ImgSrc(img_tags[idx + 1]) IN
       IF img_src = None
       THEN UNCHANGED <<pc, files, histVars, endVars>>
       ELSE \E o \in ImageOutcomes :
               /\ gets' = Append(gets, Get("pageimg", <<pos + 1, idx + 1>>, img_src[1],
                                           o # "get_error"))
               /\ SaveEffects("pageimg", <<pos + 1, idx + 1>>,
                              PageFilename(link_count, idx + 1, SafeFilenameFromUrl(img_src[1])), o)
               /\ IF Propagates(o) THEN Raise(ExcOf(o)) ELSE UNCHANGED <<pc, endVars>>
               /\ UNCHANGED scanned
    /\ UNCHANGED <<envVars, output_path, dirs, root_imgs, a_tags, i, pos, link_count,
                   img_tags>>

\* The image loop of a linked page is over; the link loop goes on.
PageDone ==
    /\ pc = "page_imgs"
    /\ idx = Len(img_tags)
    /\ pc' = "links"
    /\ pos' = pos + 1
    /\ UNCHANGED <<envVars, output_path, dirs, files, root_imgs, a_tags, i, link_count,
                   img_tags, idx, histVars, endVars>>

\* Lines 137-138: the link loop is over.
LinksDone ==
    /\ pc = "links"
    /\ pos = Len(a_tags)
    /\ Return
    /\ UNCHANGED <<envVars, output_path, dirs, files, loopVars, histVars>>

\* Lines 141-145: the script prints the returned value and ends with status 0;
\* an exception that left the function ends the interpreter with status 1.
Exit ==
    /\ pc \in {"returned", "raised"}
    /\ pc' = "exited"
    /\ exit_status' = IF pc = "raised" THEN Some(1) ELSE Some(0)
    /\ UNCHANGED <<envVars, output_path, dirs, files, loopVars, histVars, error, out>>

Next ==
    \/ MakeOutputDir
    \/ FetchRoot
    \/ RootImage
    \/ EnumerateLinks
    \/ Link
    \/ PageImage
    \/ PageDone
    \/ LinksDone
    \/ Exit

Spec == Init /\ [][Next]_vars

\* ------------------------------------------------- the program run twice
\* Time passes before a run reads the clock.
Tick ==
    /\ pc = "start"
    /\ now < MaxTick
    /\ now' = now + 1
    /\ UNCHANGED <<pc, run, req, served_root, run_paths, otherVars, output_path, dirs,
                   files, loopVars, histVars, endVars>>

\* The script is started again (lines 141-145) with the same arguments: a new
\* process on the same file system, some time after the first one ended.
Restart ==
    /\ pc = "exited"
    /\ run < 2
    /\ now < MaxTick
    /\ run' = run + 1
    /\ now' = now + 1
    /\ pc' = "start"
    /\ output_path' = <<>>
    /\ root_imgs' = <<>> /\ a_tags' = <<>> /\ i' = 0 /\ pos' = 0 /\ link_count' = 0
    /\ img_tags' = <<>> /\ idx' = 0
    /\ gets' = <<>> /\ writes' = <<>> /\ scanned' = <<>> /\ notices' = <<>>
    /\ error' = None /\ out' = None /\ exit_status' = None
    /\ UNCHANGED <<req, served_root, run_paths, otherVars, dirs, files>>

InitRerun ==
    /\ FreshRun
    /\ run = 1 /\ now = 0 /\ run_paths = <<>>
    /\ req \in [same_domain : {TRUE}, max_links : {None}, dated_subfolder : BOOLEAN]
    /\ served_root \in RootDocs(MaxElemsRerun)
    /\ dirs = {} /\ files = {}
    /\ NameIdle /\ BatchIdle

NextRerun == Next \/ Tick \/ Restart

SpecRerun == InitRerun /\ [][NextRerun]_vars

\* ------------------------------------- _safe_filename_from_url on its own
\* The harvester is not running.
HarvesterIdle ==
    /\ pc = "idle"
    /\ run = 1 /\ now = 0 /\ run_paths = <<>>
    /\ req = [same_domain |-> TRUE, max_links |-> None, dated_subfolder |-> TRUE]
    /\ served_root = [imgs |-> <<>>, links |-> <<>>]
    /\ output_path = <<>> /\ dirs = {} /\ files = {}
    /\ root_imgs = <<>> /\ a_tags = <<>> /\ i = 0 /\ pos = 0 /\ link_count = 0
    /\ img_tags = <<>> /\ idx = 0
    /\ gets = <<>> /\ writes = <<>> /\ scanned = <<>> /\ notices = <<>>
    /\ error = None /\ out = None /\ exit_status = None

\* The characters of the paths tried: the separator, the dot, a letter, and
\* two of the characters the function replaces.
PathChars == {"/", ".", "a", ":", "*"}

Queries == {<<>>, <<"v">>, <<"w", "=", "?">>}

\* The paths urlparse yields for a URL with a network location: empty, or
\* starting with a slash; here of at most n characters.
UrlPaths(n) ==
    {<<>>} \cup {<<"/">> \o rest : rest \in SeqsUpTo(PathChars, n - 1)}

\* The URLs the function is called with: every such path, with and without a
\* query string.
NameUrls(n) ==
    {Url(RootHost, path, query) : path \in UrlPaths(n), query \in Queries}

InitName ==
    /\ HarvesterIdle /\ BatchIdle
    /\ fn_url \in {Some(u) : u \in NameUrls(MaxPathLen)}
    /\ fn_name = None

\* name = _safe_filename_from_url(url)
CallSafeFilename ==
    /\ fn_name = None
    /\ fn_name' = Some(SafeFilenameFromUrl(fn_url[1]))
    /\ UNCHANGED <<fn_url, batchVars, harvesterVars>>

NextName == CallSafeFilename

SpecName == InitName /\ [][NextName]_vars

\* ------------------------------------------ mesh_cleanup.py in batch mode
\* mesh_extensions
MeshExtensions ==
    { <<".", "o", "b", "j">>, <<".", "s", "t", "l">>, <<".", "p", "l", "y">>,
      <<".", "g", "l", "t", "f">>, <<".", "g", "l", "b">>, <<".", "f", "b", "x">>,
      <<".", "d", "a", "e">>, <<".", "3", "d", "s">> }

\* folder.glob(f"*{ext}"): the entries whose name ends with ext, case kept.
Glob(names, ext) == {f \in names : EndsWith(f, ext)}

\* set(mesh_files) after the two glob calls per extension.
FoundMeshFiles(names) ==
    UNION {Glob(names, ext) \cup Glob(names, Upper(ext)) : ext \in MeshExtensions}

\* sorted(set(mesh_files))
RECURSIVE SortNames(_)
SortNames(S) ==
    IF S = {} THEN <<>>
    ELSE LET m == CHOOSE x \in S : \A y \in S \ {x} : StrLess(x, y)
         IN <<m>> \o SortNames(S \ {m})

\* output_path / f"{mesh_file.stem}_cleaned{mesh_file.suffix}", with the
\* default output folder "cleaned".
CleanedPath(f) ==
    <<"c", "l", "e", "a", "n", "e", "d", "/">>
        \o SubSeq(f, 1, Len(f) - Len(PathSuffix(f)))
        \o <<"_", "c", "l", "e", "a", "n", "e", "d">> \o PathSuffix(f)

\* How one cleanup_mesh call ends: it returns the output path, the input file
\* is gone (FileNotFoundError), or the geometry library raises (RuntimeError).
MeshOutcomes == {"cleaned", "not_found", "library_error"}

MeshExcOf(o) ==
    CASE o = "not_found" -> Some("FileNotFoundError")
      [] o = "library_error" -> Some("RuntimeError")
      [] OTHER -> None

\* CaughtInBatch with a handler for missing files only.
CaughtInBatchFileErrorsOnly(exc) == exc = Some("FileNotFoundError")

\* except Exception as e: both exceptions derive from Exception.
CaughtInBatch(exc) == exc \in {Some("FileNotFoundError"), Some("RuntimeError")}

\* The entries a folder can hold.
FolderNames ==
    { <<"b", ".", "o", "b", "j">>, <<"a", ".", "S", "T", "L">>, <<"B", ".", "p", "l", "y">>,
      <<"c", ".", "O", "b", "j">>, <<"n", ".", "t", "x", "t">> }

\* The folders of at most n entries, and the path that is no folder.
Folders(n) ==
    {[exists |-> FALSE, names |-> {}]}
      \cup {[exists |-> TRUE, names |-> S] : S \in {T \in SUBSET FolderNames : Cardinality(T) <= n}}

InitBatch ==
    /\ HarvesterIdle /\ NameIdle
    /\ batch_pc = "start"
    /\ folder \in Folders(MaxFolder)
    /\ mesh_files = <<>> /\ done = 0
    /\ successful = None /\ failed = None /\ output_paths = <<>>
    /\ attempts = <<>> /\ batch_error = None /\ batch_status = None

\* An exception leaves cleanup_batch.
BatchRaise(exc) ==
    /\ batch_pc' = "raised"
    /\ batch_error' = exc

\* Lines 83-118: the folder is checked, the mesh files are found and sorted,
\* the output folder is made and the counters are set; no mesh file returns
\* (0, 0, []) at once.
BatchStart ==
    /\ batch_pc = "start"
    /\ IF ~folder.exists
       THEN /\ BatchRaise(Some("ValueError"))
            /\ UNCHANGED <<mesh_files, successful, failed, output_paths>>
       ELSE IF FoundMeshFiles(folder.names) = {}
       THEN /\ batch_pc' = "returned"
            /\ successful' = Some(0) /\ failed' = Some(0) /\ output_paths' = <<>>
            /\ UNCHANGED <<mesh_files, batch_error>>
       ELSE /\ mesh_files' = SortNames(FoundMeshFiles(folder.names))
            /\ \E o \in {"ok", "mkdir_oserror"} :
                  IF o = "ok"
                  THEN /\ batch_pc' = "loop"
                       /\ successful' = Some(0) /\ failed' = Some(0) /\ output_paths' = <<>>
                       /\ UNCHANGED batch_error
                  ELSE /\ BatchRaise(ExcOf(o))
                       /\ UNCHANGED <<successful, failed, output_paths>>
    /\ UNCHANGED <<folder, done, attempts, batch_status, nameVars, harvesterVars>>

\* Lines 121-137: one iteration of the loop over the mesh files.
BatchMesh ==
    /\ batch_pc = "loop"
    /\ done < Len(mesh_files)
    /\ \E o \in MeshOutcomes :
          /\ attempts' = Append(attempts, [file |-> mesh_files[done + 1], ok |-> o = "cleaned"])
          /\ IF MeshExcOf(o) = None
             THEN /\ output_paths' = Append(output_paths, CleanedPath(mesh_files[done + 1]))
                  /\ successful' = Some(successful[1] + 1)
                  /\ done' = done + 1
                  /\ UNCHANGED <<failed, batch_pc, batch_error>>
             ELSE IF CaughtInBatch(MeshExcOf(o))
             THEN /\ failed' = Some(failed[1] + 1)
                  /\ done' = done + 1
                  /\ UNCHANGED <<successful, output_paths, batch_pc, batch_error>>
             ELSE /\ BatchRaise(MeshExcOf(o))
                  /\ UNCHANGED <<successful, failed, output_paths, done>>
    /\ UNCHANGED <<folder, mesh_files, batch_status, nameVars, harvesterVars>>

\* Line 147: return successful, failed, output_paths.
BatchReturn ==
    /\ batch_pc = "loop"
    /\ done = Len(mesh_files)
    /\ batch_pc' = "returned"
    /\ UNCHANGED <<folder, mesh_files, done, successful, failed, output_paths, attempts,
                   batch_error, batch_status, nameVars, harvesterVars>>

\* Lines 172-177: sys.exit(0 if failed == 0 else 1); an exception out of
\* cleanup_batch is printed and the status is 1.
BatchExit ==
    /\ batch_pc \in {"returned", "raised"}
    /\ batch_pc' = "exited"
    /\ batch_status' = IF batch_pc = "returned" /\ failed = Some(0) THEN Some(0) ELSE Some(1)
    /\ UNCHANGED <<folder, mesh_files, done, successful, failed, output_paths, attempts,
                   batch_error, nameVars, harvesterVars>>

NextBatch ==
    \/ BatchStart
    \/ BatchMesh
    \/ BatchReturn
    \/ BatchExit

SpecBatch == InitBatch /\ [][NextBatch]_vars

\* ------------------------------------------------------------ the claims
\* The derived file name of each URL the served pages hold.
DerivedName ==
    [u \in {ImgA, ImgB, ImgNoName, LinkHtml, LinkBySuffix, LinkOff} |-> SafeFilenameFromUrl(u)]

\* The session.get calls of one scope, in order.
GetsOf(scope) == SelectSeq(gets, LAMBDA g : g.scope = scope)
WritesOf(scope) == SelectSeq(writes, LAMBDA w : w.scope = scope)

\* The links fetched with a successful response, in order.
LinkFetches == SelectSeq(gets, LAMBDA g : g.scope = "link" /\ g.ok)

RootFetchFailed == gets # <<>> /\ gets[1].scope = "root" /\ ~gets[1].ok

\* C1: given a maximum link count K >= 1, no more than K same-origin links
\* are fetched successfully and routed into processing in one run.
C1_LinkBudgetRespected ==
    (req.max_links # None /\ req.max_links[1] >= 1)
        => Len(SelectSeq(LinkFetches, LAMBDA g : g.url.netloc = RootUrl.netloc))
               <= req.max_links[1]

\* C2: once the root page has been fetched, a fetch failure (a
\* RequestException of session.get, raise_for_status or a body read) never
\* leaves the function: no run ends with a RequestException raised.
C2_FetchFailureNeverAborts == error # Some("RequestException")

\* C3: a failure to open or write one image file never leaves the function:
\* after a write that failed with OSError the run still has no error.
C3_WriteFailureNeverAborts ==
    \A k \in 1..Len(writes) :
        writes[k].outcome \in {"open_oserror", "write_oserror"} => error = None

\* C4: if the root-page fetch fails the run stops there: the root GET is the
\* only request, nothing is scanned, no file is opened or exists, the function
\* has returned, and only the output directory and its parents were created.
C4_RootFailureStopsRun ==
    RootFetchFailed =>
        /\ Len(gets) = 1
        /\ writes = <<>> /\ scanned = <<>> /\ files = {}
        /\ root_imgs = <<>> /\ a_tags = <<>>
        /\ pc \in {"returned", "exited"}
        /\ error = None
        /\ dirs = {SubSeq(output_path, 1, k) : k \in 1..Len(output_path)}

C4_Witness == RootFetchFailed /\ pc = "exited" /\ served_root.imgs # <<>> /\ served_root.links # <<>>

\* C5: a root-fetch failure ends the process with a non-zero exit status.
C5_RootFailureExitsNonZero ==
    (pc = "exited" /\ RootFetchFailed) => exit_status # Some(0)

\* An <img> element has a usable source: a src or a data-src attribute.
HasSource(tag) == tag.src # None \/ tag.data_src # None
SourceOf(tag) == IF tag.src # None THEN tag.src[1] ELSE tag.data_src[1]

\* The positions, in document order, of the first n elements that have a source.
SourcedUpTo(tags, n) == SelectSeq([k \in 1..n |-> k], LAMBDA k : HasSource(tags[k]))

RootLoopOver == pc \in {"links", "page_imgs"} \/ (pc = "returned" /\ ~RootFetchFailed)

C7_OffOriginExcluded ==
    /\ [](req.same_domain => \A k \in 1..Len(gets) : gets[k].url.netloc = RootUrl.netloc)
    /\ [][ (/\ pc = "links" /\ pos < Len(a_tags) /\ req.same_domain
            /\ a_tags[pos + 1].netloc # RootUrl.netloc)
           => (/\ pos' = pos + 1 /\ pc' = "links"
               /\ UNCHANGED <<link_count, gets, writes, scanned, files, notices>>) ]_vars

C7_Witness ==
    /\ req.same_domain
    /\ a_tags = <<LinkOff, LinkBySuffix>>
    /\ pc = "exited"
    /\ link_count = 1
    /\ \E k \in 1..Len(writes) : writes[k].at = <<2>> /\ writes[k].outcome = "saved"

\* The link URLs of the model that the claim's rule makes direct images:
\* LinkOff by its Content-Type image/png (its path has no suffix), LinkBySuffix
\* by its path suffix .PNG (it has no Content-Type); LinkHtml has neither.
DirectByRule == {LinkBySuffix, LinkOff}

\* C8: the k-th successfully fetched link is handled as a direct image exactly
\* when its content type begins with image/ or its path suffix is an image
\* extension in any case; a direct image is written once, as
\* link_<k>_direct_<derivedName>, and its body is never scanned as HTML nor are
\* images fetched for it; any other link is never written as a direct image.
C8_DirectImageClassification ==
    \A k \in 1..Len(LinkFetches) :
        LET g == LinkFetches[k]
            dw == SelectSeq(writes, LAMBDA w : w.scope = "direct" /\ w.at = g.at)
        IN IF g.url \in DirectByRule
           THEN /\ Len(dw) = 1
                /\ dw[1].name = <<"l", "i", "n", "k", "_">> \o DecStr(k)
                       \o <<"_", "d", "i", "r", "e", "c", "t", "_">>
                       \o DerivedName[g.url]
                /\ \A n \in 1..Len(scanned) : scanned[n].at # g.at
                /\ \A n \in 1..Len(gets) :
                      gets[n].scope = "pageimg" => gets[n].at[1] # g.at[1]
           ELSE dw = <<>>

C8_Witness ==
    /\ pc = "exited"
    /\ a_tags = <<LinkHtml, LinkBySuffix, LinkOff>>
    /\ Len(scanned) = 1
    /\ \E k \in 1..Len(writes) :
          /\ writes[k].scope = "direct" /\ writes[k].at = <<2>>
          /\ writes[k].outcome = "saved"
    /\ \E k \in 1..Len(writes) :
          /\ writes[k].scope = "direct" /\ writes[k].at = <<3>>
          /\ writes[k].outcome = "saved"

\* C9: within one run no two open() calls target the same file name.
C9_UniqueFilenames ==
    \A j, k \in 1..Len(writes) : j # k => writes[j].name # writes[k].name

\* Images of the root page, of two visits of the same linked page and a direct
\* link were written, with equal derived names among them.
C9_Witness ==
    /\ pc = "exited"
    /\ a_tags = <<LinkHtml, LinkHtml>>
    /\ root_imgs = <<TagSrc>>
    /\ Len(WritesOf("rootimg")) = 1
    /\ Len(WritesOf("pageimg")) = 4
    /\ \A k \in 1..Len(writes) : writes[k].outcome = "saved"

\* C10: two runs with dated_subfolder and the same output folder use two
\* distinct output directories, whatever the time between their starts.
C10_DatedRunsDistinctDirs ==
    (req.dated_subfolder /\ Len(run_paths) = 2) => run_paths[1] # run_paths[2]

\* C11: the output directory is created once per run and before any fetch:
\* whenever a request was issued or a file exists, the run's single mkdir has
\* succeeded and the directory exists; a run whose mkdir failed ends with
\* OSError and no request; directories are created only by the first step of
\* the run and never removed.
C11_DirCreatedOnceBeforeFetch ==
    /\ []( /\ (gets # <<>> \/ writes # <<>> \/ files # {}) =>
                (output_path \in dirs /\ run_paths = <<output_path>>)
           /\ (pc # "start" /\ output_path \notin dirs) =>
                (/\ error = Some("OSError") /\ pc \in {"raised", "exited"}
                 /\ gets = <<>> /\ files = {} /\ run_paths = <<>>) )
    /\ [][ /\ dirs \subseteq dirs'
           /\ (dirs' # dirs \/ run_paths' # run_paths) => (pc = "start" /\ gets = <<>>)
           /\ pc' # "start" ]_vars

\* The mkdir failed and the run ended without a request.
C11_Witness ==
    /\ pc = "exited" /\ error = Some("OSError")
    /\ output_path \notin dirs /\ gets = <<>>
    /\ served_root.imgs # <<>> /\ served_root.links # <<>>

\* C12: at the end of a run every file present holds the complete body of a
\* successfully fetched image.
C12_NoPartialFiles == pc = "exited" => \A f \in files : f.complete

\* The 1-based index a link has among the links fetched successfully: the
\* number of such fetches up to its position in the document.
LinkIndexAt(p) ==
    Cardinality({n \in 1..Len(gets) :
                    gets[n].scope = "link" /\ gets[n].ok /\ gets[n].at[1] <= p})

\* C13: every file opened for an image of a linked page is named
\* <linkIndex>_<imageIndexOnPage>_<derivedName>, the image index being the
\* element's 1-based position among all image elements of the page; an element
\* is written at most once, only if it has a source and its own fetch
\* succeeded, and a saved one leaves that file complete.
C13_PageImageNames ==
    \A k \in 1..Len(writes) :
        writes[k].scope = "pageimg" =>
            LET w == writes[k]
                page == Served(a_tags[w.at[1]]).imgs
            IN /\ w.at[2] \in 1..Len(page)
               /\ HasSource(page[w.at[2]])
               /\ w.name = DecStr(LinkIndexAt(w.at[1])) \o <<"_">> \o DecStr(w.at[2])
                               \o <<"_">> \o DerivedName[SourceOf(page[w.at[2]])]
               /\ \E n \in 1..Len(gets) :
                     gets[n].scope = "pageimg" /\ gets[n].at = w.at /\ gets[n].ok
               /\ \A j \in 1..Len(writes) :
                     (writes[j].scope = "pageimg" /\ writes[j].at = w.at) => j = k
               /\ w.outcome = "saved" =>
                     [dir |-> output_path, name |-> w.name, complete |-> TRUE, run |-> run]
                         \in files

\* The second fetched link is a page of three elements: the first one's fetch
\* failed, the second has no source, the third was saved.
C13_Witness ==
    /\ pc = "exited"
    /\ a_tags = <<LinkBySuffix, LinkHtml>>
    /\ link_count = 2
    /\ \E n \in 1..Len(gets) : gets[n].at = <<2, 1>> /\ ~gets[n].ok
    /\ \E k \in 1..Len(writes) :
          /\ writes[k].at = <<2, 3>> /\ writes[k].outcome = "saved"
          /\ SubSeq(writes[k].name, 1, 4) = <<"2", "_", "3", "_">>

\* C15: the link counter is the number of links fetched successfully: a link
\* dropped by the origin filter or whose fetch failed leaves it unchanged, and
\* every successfully fetched link, direct image or page, adds exactly one.
C15_CounterCountsFetchedLinks == link_count = Len(LinkFetches)

\* What one run can request: the root page, each root image, each link, and
\* each image of each link's page.
Occurrences ==
    1 + Len(root_imgs) + Len(a_tags)
      + Len(LinkFetches) * Len(Served(LinkHtml).imgs)

\* C16: no request is repeated: no two session.get calls are for the same
\* occurrence of a resource (the root page, the k-th root image, the k-th
\* link, the j-th image of the k-th link's page), whether the first one failed
\* or not; a direct image is written from the response of the link's own GET,
\* the only request made for that link.
C16_NoRetry ==
    /\ \A j, k \in 1..Len(gets) :
          (gets[j].scope = gets[k].scope /\ gets[j].at = gets[k].at) => j = k
    /\ Len(GetsOf("root")) <= 1
    /\ Len(gets) <= Occurrences
    /\ \A k \in 1..Len(WritesOf("direct")) :
          LET w == WritesOf("direct")[k]
              forLink == SelectSeq(gets, LAMBDA g : g.scope \in {"link", "pageimg"}
                                                      /\ g.at[1] = w.at[1])
          IN Len(forLink) = 1 /\ forLink[1].scope = "link" /\ forLink[1].ok

\* A link whose fetch failed was passed over, and a direct image was saved.
C16_Witness ==
    /\ pc = "exited" /\ error = None
    /\ a_tags = <<LinkHtml, LinkBySuffix>>
    /\ root_imgs = <<TagSrc>>
    /\ \E n \in 1..Len(gets) : gets[n].at = <<1>> /\ gets[n].scope = "link" /\ ~gets[n].ok
    /\ \E n \in 1..Len(gets) : gets[n].at = <<1>> /\ gets[n].scope = "rootimg" /\ ~gets[n].ok
    /\ \E k \in 1..Len(writes) :
          writes[k].scope = "direct" /\ writes[k].at = <<2>> /\ writes[k].outcome = "saved"

\* C17: with a maximum K >= 1, at most K+1 links are fetched successfully and
\* at most K pages are scanned (no image is fetched or written for a link of
\* index above K); the (K+1)-th fetched link is the last request of the run:
\* it is written if it is a direct image and not scanned if it is a page; and
\* a run returns with links left over only after that (K+1)-th fetch.
C17_BudgetBoundary ==
    (req.max_links # None /\ req.max_links[1] >= 1) =>
        LET K == req.max_links[1] IN
        /\ Len(LinkFetches) <= K + 1
        /\ Len(scanned) <= K
        /\ \A n \in 1..Len(scanned) : LinkIndexAt(scanned[n].at[1]) <= K
        /\ \A n \in 1..Len(gets) :
              gets[n].scope = "pageimg" => LinkIndexAt(gets[n].at[1]) <= K
        /\ Len(LinkFetches) = K + 1 =>
              LET g == LinkFetches[K + 1] IN
              /\ gets[Len(gets)] = g
              /\ pc \in {"returned", "raised", "exited"}
              /\ IF g.url \in DirectByRule
                 THEN \E k \in 1..Len(writes) :
                         /\ writes[k].scope = "direct" /\ writes[k].at = g.at
                         /\ k = Len(writes)
                         /\ writes[k].outcome = "saved" =>
                               [dir |-> output_path, name |-> writes[k].name,
                                complete |-> TRUE, run |-> run] \in files
                 ELSE \A n \in 1..Len(scanned) : scanned[n].at # g.at
        /\ (pc \in {"returned", "exited"} /\ error = None /\ ~RootFetchFailed
              /\ pos < Len(a_tags)) => Len(LinkFetches) = K + 1

\* With K = 1: the first link's page was scanned, the second link, a direct
\* image, was fetched and saved, and the third link was never requested.
C17_Witness ==
    /\ pc = "exited"
    /\ req.max_links = Some(1)
    /\ a_tags = <<LinkHtml, LinkBySuffix, LinkHtml>>
    /\ Len(scanned) = 1
    /\ Len(GetsOf("link")) = 2
    /\ \E k \in 1..Len(writes) :
          writes[k].scope = "direct" /\ writes[k].at = <<2>> /\ writes[k].outcome = "saved"

\* Reading a link index back out of a file name: the decimal number before
\* the first underscore, after the prefix link_ for a direct image.
DigitValue(c) == CHOOSE d \in 0..9 : DigitChar(d) = c

RECURSIVE ParseDec(_)
ParseDec(s) ==
    IF s = <<>> THEN 0
    ELSE 10 * ParseDec(SubSeq(s, 1, Len(s) - 1)) + DigitValue(s[Len(s)])

LeadingNumber(s) ==
    LET k == CHOOSE m \in 1..Len(s) : s[m] = "_" /\ \A j \in 1..(m - 1) : s[j] # "_"
    IN ParseDec(SubSeq(s, 1, k - 1))

IndexInName(w) ==
    IF w.scope = "direct" THEN LeadingNumber(SubSeq(w.name, 6, Len(w.name)))
    ELSE LeadingNumber(w.name)

\* The link indices used so far, each with the document position of the link
\* it was used for: in the names of direct-image and page-image files, and as
\* the number of a scanned page.
IndexUses ==
    {<<IndexInName(writes[k]), writes[k].at[1]>> :
        k \in {n \in 1..Len(writes) : writes[n].scope \in {"direct", "pageimg"}}}
      \cup {<<scanned[n].link, scanned[n].at[1]>> : n \in 1..Len(scanned)}

UsedIndices == {u[1] : u \in IndexUses}

\* Each index belongs to one link, and indices grow with document order.
IndicesInDocumentOrder ==
    \A u, v \in IndexUses :
        /\ u[1] = v[1] => u[2] = v[2]
        /\ u[2] < v[2] => u[1] < v[1]

HandledUpTo(n) ==
    \A p \in 1..n :
        LET fetches == SelectSeq(gets, LAMBDA g : g.scope = "link" /\ g.at = <<p>>)
        IN IF req.same_domain /\ a_tags[p].netloc # RootUrl.netloc
           THEN fetches = <<>>
           ELSE /\ Len(fetches) = 1
                /\ fetches[1].ok =>
                      IF a_tags[p] \in DirectByRule
                      THEN \E k \in 1..Len(writes) :
                              writes[k].scope = "direct" /\ writes[k].at = <<p>>
                      ELSE \/ \E k \in 1..Len(scanned) : scanned[k].at = <<p>>
                           \/ error = Some("RequestException")

\* C19: a maximum of 0 is no maximum. Every step a run takes with max_links
\* 0 is the step it takes with max_links absent from the same state, pages
\* and outcomes, and the other way round: the same requests, files, counters
\* and position follow. With either value the budget never ends the link
\* loop: every link met so far is handled in full, and a run that returns
\* after a successful root fetch has met every link of the root page.
C19_ZeroMeansNoLimit ==
    /\ [][ req.max_links \in {None, Some(0)} => (LinkStep(Some(0)) <=> LinkStep(None)) ]_vars
    /\ []( req.max_links \in {None, Some(0)} =>
             /\ pc \in {"links", "page_imgs"} => HandledUpTo(pos)
             /\ (pc \in {"returned", "exited"} /\ error = None /\ ~RootFetchFailed) =>
                   (pos = Len(a_tags) /\ HandledUpTo(Len(a_tags))
                      /\ link_count = Len(LinkFetches)) )

\* A run with max_links = 0 went through three links: two pages scanned and a
\* direct image saved.
C19_Witness ==
    /\ pc = "exited" /\ error = None
    /\ req.max_links = Some(0)
    /\ a_tags = <<LinkHtml, LinkBySuffix, LinkHtml>>
    /\ Len(scanned) = 2
    /\ link_count = 3
    /\ \E k \in 1..Len(writes) :
          writes[k].scope = "direct" /\ writes[k].at = <<2>> /\ writes[k].outcome = "saved"

\* The final segment of a path: the text after its last slash.
FinalSegment(p) ==
    IF Positions(p, "/") = {} THEN p ELSE SubSeq(p, SetMax(Positions(p, "/")) + 1, Len(p))

\* The function's fallback for the URL u.
FallbackName(u) ==
    <<"i", "m", "a", "g", "e", "_">> \o Sha1Hex(UrlString(u)) \o <<".", "j", "p", "g">>

\* The name is not empty and holds none of \ / : * ? " < > |.
SafeName(r) ==
    /\ r # <<>>
    /\ \A k \in 1..Len(r) : r[k] \notin {"\\", "/", ":", "*", "?", "\"", "<", ">", "|"}

\* The URL u with another query string.
WithQuery(u, q) == [u EXCEPT !.query = q]

\* C14 as stated: the function returns a non-empty string; for a URL whose
\* final path segment is non-empty the name holds no replaced character and
\* is the same whatever the query string; for an empty or root path it is the
\* fallback image_<sha1 of the URL string>.jpg.
C14_NameBySegment ==
    fn_name # None =>
        LET u == fn_url[1]
            r == fn_name[1]
        IN /\ r # <<>>
           /\ FinalSegment(u.path) # <<>> =>
                 /\ SafeName(r)
                 /\ \A q \in Queries : SafeFilenameFromUrl(WithQuery(u, q)) = r
           /\ u.path \in {<<>>, <<"/">>} => r = FallbackName(u)

\* A path made of nothing but slashes and "." segments.
OnlyDotSegments(p) ==
    \A k \in 1..Len(SplitSlash(p)) : SplitSlash(p)[k] \in {<<>>, <<".">>}

\* C14 amended: the function returns a non-empty string; for a URL whose final
\* path segment is non-empty, unless the path is made of "." segments only,
\* the name holds no replaced character and is the same whatever the query
\* string; for a path that is empty, the root, or made of "." segments only,
\* it is the fallback image_<sha1 of the URL string>.jpg, which holds no
\* replaced character either and differs for different URL strings.
C14_NameByComponent ==
    fn_name # None =>
        LET u == fn_url[1]
            r == fn_name[1]
        IN /\ SafeName(r)
           /\ (FinalSegment(u.path) # <<>> /\ ~OnlyDotSegments(u.path)) =>
                 \A q \in Queries : SafeFilenameFromUrl(WithQuery(u, q)) = r
           /\ OnlyDotSegments(u.path) =>
                 /\ r = FallbackName(u)
                 /\ \A q \in Queries :
                       q # u.query => SafeFilenameFromUrl(WithQuery(u, q)) # r

\* The function was called on a path whose last component holds replaced
\* characters, and on a path of "." segments.
C14_Witness ==
    /\ fn_name # None
    /\ fn_url[1].path = <<"/", ":", "*">>
    /\ fn_name[1] = <<"_", "_">>
    /\ fn_url[1].query # <<>>

C14_FallbackWitness ==
    /\ fn_name # None
    /\ fn_url[1].path = <<"/", ".">>
    /\ SubSeq(fn_name[1], 1, 6) = <<"i", "m", "a", "g", "e", "_">>

\* The entries of the folder that are mesh files: a supported extension in
\* lower or in upper case.
MeshNames ==
    {f \in folder.names :
        \E e \in MeshExtensions : EndsWith(f, e) \/ EndsWith(f, Upper(e))}

AttemptsWith(ok) == SelectSeq(attempts, LAMBDA a : a.ok = ok)

\* C20: for a folder of n >= 1 mesh files, cleanup_mesh is called on mesh
\* files only, in ascending order and at most once each, and no exception
\* leaves cleanup_batch once the first file was attempted, whatever files
\* fail; when cleanup_batch returns, all n files were attempted, successful
\* and failed count the attempts that succeeded and failed, successful +
\* failed = n, and the list of output paths has `successful` entries; the
\* batch run exits with status 0 exactly when it returned with failed = 0.
C20_BatchIsolatesFailures ==
    /\ (folder.exists /\ Cardinality(MeshNames) >= 1) =>
          LET n == Cardinality(MeshNames) IN
          /\ \A k \in 1..Len(attempts) : attempts[k].file \in MeshNames
          /\ \A j, k \in 1..Len(attempts) :
                j < k => StrLess(attempts[j].file, attempts[k].file)
          /\ attempts # <<>> => batch_error = None
          /\ (batch_pc \in {"returned", "exited"} /\ batch_error = None) =>
                /\ Len(attempts) = n
                /\ {attempts[k].file : k \in 1..Len(attempts)} = MeshNames
                /\ successful = Some(Len(AttemptsWith(TRUE)))
                /\ failed = Some(Len(AttemptsWith(FALSE)))
                /\ successful[1] + failed[1] = n
                /\ Len(output_paths) = successful[1]
    /\ batch_pc = "exited" => (batch_status = Some(0) <=> failed = Some(0))
    /\ batch_pc = "exited" => batch_status \in {Some(0), Some(1)}

\* Three mesh files: the first and the third failed, in two ways, the second
\* was cleaned; the run ended with status 1.
C20_Witness ==
    /\ batch_pc = "exited"
    /\ Len(attempts) = 3
    /\ mesh_files = << <<"B", ".", "p", "l", "y">>, <<"a", ".", "S", "T", "L">>,
                       <<"b", ".", "o", "b", "j">> >>
    /\ [k \in 1..3 |-> attempts[k].ok] = <<FALSE, TRUE, FALSE>>
    /\ successful = Some(1) /\ failed = Some(2)
    /\ output_paths = << <<"c", "l", "e", "a", "n", "e", "d", "/", "a", "_", "c", "l", "e",
                           "a", "n", "e", "d", ".", "S", "T", "L">> >>
    /\ batch_status = Some(1)

====
